---- MODULE Spec2Model ----
(***************************************************************************)
(* Model of contract-tx-scraper: run_analytics (src/main.py) submits one   *)
(* process_transaction_task per transaction hash to a ThreadPoolExecutor   *)
(* and collects the entries with as_completed into raw_results.            *)
(*                                                                         *)
(* Python values are encoded as follows.  An optional value is a sequence  *)
(* of length at most one: None is <<>> and a present value v is <<v>>.     *)
(* A dict is a function over its keys.  A 32-byte topic is a record        *)
(* [hi, lo]: lo stands for its low-order 20 bytes, hi for the 12 bytes     *)
(* above them.  A transaction hash string is a record [text, hex]: hex     *)
(* tells whether the text is a hexadecimal string.                         *)
(***************************************************************************)
EXTENDS Integers, Sequences, FiniteSets, TLC

VARIABLES
    config,                  \* the Config object (src/config.py)
    chain,                   \* what the blockchain client answers, per hash
    env,                     \* the node and the files the run finds
    connected,               \* whether the Web3 client has connected
    transactions_to_process, \* the deduplicated hash strings, in row order
    main_pc,                 \* position of the thread running run_analytics
    submitted,               \* number of executor.submit calls made so far
    work_queue,              \* the executor's queue of tasks not yet started
    task,                    \* per task: the frame of process_transaction_task
    yielded,                 \* the futures as_completed has yielded so far
    completed_count,         \* run_analytics' progress counter
    raw_results,             \* the report
    decoder                  \* the frame of a call of get_input_data_tx

vars == <<config, chain, env, connected, transactions_to_process, main_pc, submitted,
          work_queue, task, yielded, completed_count, raw_results, decoder>>

----------------------------------------------------------------------------
(* Bounds of the model. *)

MaxHashes == 2

MaxLogs == 2

----------------------------------------------------------------------------
(* Python values. *)

None == <<>>

Some(v) == <<v>>

\* bool(x) of an optional string: None and "" are falsy.
Truthy(opt) == opt # None /\ opt[1] # ""

\* dict.get(key, default): the default is used only when the key is missing.
DictGet(d, key, default) == IF key \in DOMAIN d THEN d[key] ELSE default

\* HexBytes(hex_hash_string): raises on a string that is not hexadecimal.
HexBytes(s) == IF s.hex THEN [ok |-> TRUE, bytes |-> s.text]
                        ELSE [ok |-> FALSE, bytes |-> 0]

----------------------------------------------------------------------------
(* Config. *)

valid_modes == {"privado", "civic", "worldid"}

\* Config.__post_init__: an invalid mode falls back to 'privado'.
PostInitMode(mode) == IF mode \in valid_modes THEN mode ELSE "privado"

\* The checksummed zero address, Config.null_address.
null_address == <<"0x", 0>>

----------------------------------------------------------------------------
(* The blockchain client's answers.  A scenario is what the client answers *)
(* for one hash: tx for get_transaction, block for get_block, receipt for  *)
(* get_transaction_receipt.  kind "raise" is a call that raises.           *)

Topic(hi, lo) == [hi |-> hi, lo |-> lo]

\* w3.keccak(text="Transfer(address,address,uint256)")
transfer_event_signature == Topic(7, 7)

OtherSignature == Topic(7, 8)

\* Number of distinct 20-byte values of the model (stands for 2^160).
AddressSpace == Cardinality({0, 1, 2})

\* topic.hex()[-40:] : the low-order 20 bytes of a topic.
Low20(topic) == topic.lo

\* w3.to_checksum_address: the canonical string form of a 20-byte value.
to_checksum_address(a) == <<"0x", a>>

\* int(topic.hex(), 16): the whole topic as an unsigned integer.
ToInt(topic) == topic.hi * AddressSpace + topic.lo

Log(topics) == [topics |-> topics]

\* ERC-721 Transfer logs: signature, from, to, tokenId.
MintA == Log(<<transfer_event_signature, Topic(0, 0), Topic(0, 1), Topic(0, 1)>>)

\* from has non-zero bytes above its low-order 20 bytes, which are zero.
MintB == Log(<<transfer_event_signature, Topic(1, 0), Topic(1, 2), Topic(1, 2)>>)

TransferLog == Log(<<transfer_event_signature, Topic(0, 1), Topic(0, 2), Topic(0, 1)>>)

\* Another event whose first indexed argument is the null address.
OtherLog == Log(<<OtherSignature, Topic(0, 0), Topic(0, 1), Topic(0, 1)>>)

\* An anonymous event without topics.
NoTopicsLog == Log(<<>>)

\* ERC-20 Transfer logs: signature, from, to (the value is in the data).
Erc20Mint == Log(<<transfer_event_signature, Topic(0, 0), Topic(0, 2)>>)

Erc20Transfer == Log(<<transfer_event_signature, Topic(0, 1), Topic(0, 2)>>)

SignatureOnlyLog == Log(<<transfer_event_signature>>)

LogKinds == {MintA, MintB, TransferLog, OtherLog, NoTopicsLog, Erc20Mint,
             Erc20Transfer, SignatureOnlyLog}

\* All sequences over S of length at most n.
RECURSIVE SeqsUpTo(_, _)
SeqsUpTo(S, n) ==
    IF n = 0 THEN {<<>>}
    ELSE LET shorter == SeqsUpTo(S, n - 1)
         IN  shorter \cup {Append(q, x) : q \in {r \in shorter : Len(r) = n - 1}, x \in S}

ReceiptRaises == [kind |-> "raise", logs |-> <<>>]

Receipt(logs) == [kind |-> "receipt", logs |-> logs]

Receipts == {ReceiptRaises} \cup {Receipt(l) : l \in SeqsUpTo(LogKinds, MaxLogs)}

BlockRaises == [kind |-> "raise"]

BlockAbsent == [kind |-> "none"]

Block(timestamp) == [kind |-> "block", timestamp |-> timestamp]

Blocks == {BlockRaises, BlockAbsent, Block(None), Block(Some(0)), Block(Some(1700))}

TxRaises == [kind |-> "raise"]

TxAbsent == [kind |-> "none"]

Tx(blockNumber, to, input) ==
    [kind |-> "tx", blockNumber |-> blockNumber, to |-> to, input |-> input]

\* Call data of the model: absent, empty, an unknown selector, calls the
\* interface decodes, a boolean word that is neither 0 nor 1, and call data
\* cut short: inside the selector, right after it, and one byte before the
\* end of the last word.
CallData == {None, Some("0x"), Some("0xdeadbeef"), Some("0xgenesis"),
             Some("0xnotgenesis"), Some("0xgenesis1"), Some("0xnokey"),
             Some("0xnoparams"), Some("0xbadbool"), Some("0xab"),
             Some("0xnokey_cut"), Some("0xgenesis_cut")}

ToAddresses == {None, Some("0x70")}

Scenario(tx, block, receipt) == [tx |-> tx, block |-> block, receipt |-> receipt]

----------------------------------------------------------------------------
(* The call decoder.  main.py imports decode_transaction_input from        *)
(* src/tx_details.py, which does not define it: it is modelled from the    *)
(* specification's Call Decoder (4.3), with None as the failure value.     *)

GenesisParams == [isOldStateGenesis |-> "True", id |-> "7"]

NotGenesisParams == [isOldStateGenesis |-> "False", id |-> "7"]

\* isOldStateGenesis decoded as the integer 1, not as a boolean.
IntGenesisParams == [isOldStateGenesis |-> "1", id |-> "7"]

NoKeyParams == [id |-> "7"]

EmptyParams == <<>>

WordBytes == 32

\* The bytes of a call: head holds the selector if the call has four bytes,
\* words the whole 32-byte words after it, tail the number of bytes left over.
Call(head, words, tail) == [head |-> head, words |-> words, tail |-> tail]

CallBytes(hex) ==
    CASE hex = "0xdeadbeef"    -> Call(<<"deadbeef">>, <<>>, 0)
      [] hex = "0xgenesis"     -> Call(<<"transitState(uint256,bool)">>, <<7, 1>>, 0)
      [] hex = "0xnotgenesis"  -> Call(<<"transitState(uint256,bool)">>, <<7, 0>>, 0)
      [] hex = "0xbadbool"     -> Call(<<"transitState(uint256,bool)">>, <<7, 2>>, 0)
      [] hex = "0xgenesis_cut" -> Call(<<"transitState(uint256,bool)">>, <<7>>, WordBytes - 1)
      [] hex = "0xgenesis1"    -> Call(<<"transitState(uint256,uint256)">>, <<7, 1>>, 0)
      [] hex = "0xnokey"       -> Call(<<"setState(uint256)">>, <<7>>, 0)
      [] hex = "0xnokey_cut"   -> Call(<<"setState(uint256)">>, <<>>, 0)
      [] hex = "0xnoparams"    -> Call(<<"ping()">>, <<>>, 0)
      [] OTHER                 -> Call(<<>>, <<>>, 2)

Parameter(name, type) == [name |-> name, type |-> type]

InterfaceEntry(name, inputs) == [name |-> name, inputs |-> inputs]

Selectors == {"transitState(uint256,bool)", "transitState(uint256,uint256)",
              "setState(uint256)", "ping()"}

\* The registry: selector to function entry.
Registry ==
    [selector \in Selectors |->
        CASE selector = "transitState(uint256,bool)" ->
                 InterfaceEntry("transitState", <<Parameter("id", "uint256"),
                                                 Parameter("isOldStateGenesis", "bool")>>)
          [] selector = "transitState(uint256,uint256)" ->
                 InterfaceEntry("transitState", <<Parameter("id", "uint256"),
                                                 Parameter("isOldStateGenesis", "uint256")>>)
          [] selector = "setState(uint256)" ->
                 InterfaceEntry("setState", <<Parameter("id", "uint256")>>)
          [] OTHER -> InterfaceEntry("ping", <<>>)]

Decimal == <<"0", "1", "2", "3", "4", "5", "6", "7", "8", "9">>

\* One static word decoded by its type; a bool word must be 0 or 1.
DecodeValue(type, word) ==
    IF type = "bool"
    THEN CASE word = 0 -> Some("False")
           [] word = 1 -> Some("True")
           [] OTHER    -> None
    ELSE Some(Decimal[word + 1])

\* A read that does not look at the end of the buffer and sees zeros there.
ReadWordUnchecked(call, k) == IF k <= Len(call.words) THEN Some(call.words[k]) ELSE Some(0)

\* Word k of the buffer, or no word when the buffer ends before it.
ReadWord(call, k) == IF k <= Len(call.words) THEN Some(call.words[k]) ELSE None

DecodeParameters(call, inputs) ==
    LET values == [k \in 1..Len(inputs) |->
                      LET word == ReadWord(call, k)
                      IN  IF word = None THEN None ELSE DecodeValue(inputs[k].type, word[1])]
    IN  IF \E k \in 1..Len(inputs) : values[k] = None THEN None
        ELSE IF inputs = <<>> THEN Some(EmptyParams)
        ELSE Some([name \in {inputs[k].name : k \in 1..Len(inputs)} |->
                      values[CHOOSE k \in 1..Len(inputs) : inputs[k].name = name][1]])

decode_transaction_input(input_data, address) ==
    IF input_data = None \/ input_data = Some("0x") \/ ~Truthy(address) THEN None
    ELSE LET call == CallBytes(input_data[1])
         IN  IF call.head = <<>> \/ call.head[1] \notin Selectors THEN None
             ELSE LET entry == Registry[call.head[1]]
                      orderedParams == DecodeParameters(call, entry.inputs)
                  IN  IF orderedParams = None THEN None
                      ELSE Some(<<entry.name, orderedParams[1]>>)

----------------------------------------------------------------------------
(* process_transaction_task, one operator per stretch of code between two  *)
(* client calls.  A frame holds the task's local variables; pc names the   *)
(* call the task makes next, or "returned" / "raised" once it has ended.   *)

InitialEntry(hex_hash_string) ==
    [transaction_hash |-> hex_hash_string,
     timestamp |-> None,
     decoded_function |-> None,
     decoded_parameters |-> None,
     is_genesis_transition |-> FALSE,
     privado_decoding_successful |-> FALSE,
     is_minting_event |-> FALSE,
     recipient_address |-> None,
     token_id |-> None,
     civic_log_processing_successful |-> FALSE,
     error |-> None]

\* return result_entry with the error set.
ReturnError(frame, message) ==
    [frame EXCEPT !.pc = "returned",
                  !.result_entry = [@ EXCEPT !.error = Some(message)]]

\* Lines 52-67: the entry is built, then HexBytes runs outside the try block.
TaskStart(hex_hash_string) ==
    LET converted == HexBytes(hex_hash_string)
    IN  [pc |-> IF converted.ok THEN "get_transaction" ELSE "raised",
         hex_hash_string |-> hex_hash_string,
         tx_hash_bytes |-> converted.bytes,
         result_entry |-> InitialEntry(hex_hash_string),
         calls |-> <<>>,
         tx |-> TxAbsent,
         address_for_mode_processing |-> None,
         exception |-> IF converted.ok THEN None ELSE Some("ValueError")]

\* Lines 69-82 with get_transaction reissued once after it raised.
StepGetTransactionRetry(frame, client) ==
    LET called == [frame EXCEPT !.calls = Append(@, "get_transaction")]
        tx == client.tx
    IN  IF tx.kind = "raise"
        THEN ReturnError([called EXCEPT !.calls = Append(@, "get_transaction")],
                 "Unexpected error during transaction fetch or initial processing: connection failed")
        ELSE IF tx.kind = "none"
        THEN ReturnError(called, "Transaction not found")
        ELSE IF tx.blockNumber = None
        THEN ReturnError(called, "Transaction is pending (no block number)")
        ELSE [called EXCEPT !.pc = "get_block", !.tx = tx]

\* Lines 69-82 and the handler of lines 156-158.
StepGetTransaction(frame, client) ==
    LET called == [frame EXCEPT !.calls = Append(@, "get_transaction")]
        tx == client.tx
    IN  IF tx.kind = "raise"
        THEN ReturnError(called,
                 "Unexpected error during transaction fetch or initial processing: connection failed")
        ELSE IF tx.kind = "none"
        THEN ReturnError(called, "Transaction not found")
        ELSE IF tx.blockNumber = None
        THEN ReturnError(called, "Transaction is pending (no block number)")
        ELSE [called EXCEPT !.pc = "get_block", !.tx = tx]

\* Lines 109 and 131 without the else branch of lines 152-154.
ModeDispatchNoElse(frame, analysis_mode) ==
    IF analysis_mode = "privado" THEN [frame EXCEPT !.pc = "decode"]
    ELSE IF analysis_mode = "civic" THEN [frame EXCEPT !.pc = "get_receipt"]
    ELSE [frame EXCEPT !.pc = "returned"]

\* Lines 109, 131, 152-154: what the mode does next.
ModeDispatch(frame, analysis_mode) ==
    IF analysis_mode = "privado" THEN [frame EXCEPT !.pc = "decode"]
    ELSE IF analysis_mode = "civic" THEN [frame EXCEPT !.pc = "get_receipt"]
    ELSE ReturnError(frame, "Unsupported analysis mode: " \o analysis_mode)

\* Line 99 with the transaction's `to` taking precedence.
ResolveAddressToFirst(contract_address_from_config, tx) ==
    IF Truthy(tx.to) THEN tx.to ELSE contract_address_from_config

\* Line 99.
ResolveAddress(contract_address_from_config, tx) ==
    IF Truthy(contract_address_from_config) THEN contract_address_from_config
    ELSE tx.to

\* Lines 99-105 without the return of line 105.
StepAddressNoReturn(frame, cfg) ==
    LET address == ResolveAddress(cfg.contract_address, frame.tx)
        resolved == [frame EXCEPT !.address_for_mode_processing = address]
    IN  IF ~Truthy(address)
        THEN ModeDispatch([resolved EXCEPT !.result_entry.error =
                 Some("Contract address not available for processing in this mode")],
                 cfg.analysis_mode)
        ELSE ModeDispatch(resolved, cfg.analysis_mode)

\* Lines 99-105, then the mode dispatch.
StepAddress(frame, cfg) ==
    LET address == ResolveAddress(cfg.contract_address, frame.tx)
        resolved == [frame EXCEPT !.address_for_mode_processing = address]
    IN  IF ~Truthy(address)
        THEN ReturnError(resolved,
                 "Contract address not available for processing in this mode")
        ELSE ModeDispatch(resolved, cfg.analysis_mode)

\* Lines 84-97, followed by the address resolution.
StepGetBlock(frame, client, cfg) ==
    LET called == [frame EXCEPT !.calls = Append(@, "get_block")]
        block == client.block
    IN  IF block.kind = "raise"
        THEN ReturnError(called, "Error fetching block or timestamp: connection failed")
        ELSE IF block.kind = "none"
        THEN ReturnError(called,
                 "Error fetching block or timestamp: 'NoneType' object has no attribute 'get'")
        ELSE IF block.timestamp = None
        THEN ReturnError(called, "Block found but no timestamp")
        ELSE StepAddress([called EXCEPT !.result_entry.timestamp = block.timestamp], cfg)

\* Line 123 testing the value's truthiness instead of `is True`.
IsGenesisTruthy(parameters) ==
    /\ parameters # EmptyParams
    /\ "isOldStateGenesis" \in DOMAIN parameters
    /\ parameters["isOldStateGenesis"] \notin {"False", "0", "None"}

\* Line 123.
IsGenesis(parameters) ==
    /\ parameters # EmptyParams
    /\ "isOldStateGenesis" \in DOMAIN parameters
    /\ parameters["isOldStateGenesis"] = "True"

\* Lines 111-128.
StepDecode(frame) ==
    LET called == [frame EXCEPT !.calls = Append(@, "decode_transaction_input")]
        decoded_data == decode_transaction_input(frame.tx.input,
                                                 frame.address_for_mode_processing)
        entry == frame.result_entry
    IN  IF decoded_data # None
        THEN LET function_name == decoded_data[1][1]
                 parameters == decoded_data[1][2]
             IN  [called EXCEPT !.pc = "returned",
                      !.result_entry =
                          [entry EXCEPT !.decoded_function = Some(function_name),
                                        !.decoded_parameters = Some(parameters),
                                        !.privado_decoding_successful = TRUE,
                                        !.is_genesis_transition =
                                            IF IsGenesis(parameters) THEN TRUE ELSE @]]
        ELSE [called EXCEPT !.pc = "returned",
                  !.result_entry.error =
                      DictGet(entry, "error", Some("Privado decoding failed or no input data"))]

Raised(entry, text) == [entry |-> entry, exception |-> Some(text)]

Passed(entry) == [entry |-> entry, exception |-> None]

\* Lines 137-143, the body of the loop over the logs, statement by statement.
ProcessLog(entry, log, null) ==
    LET topics == log.topics
        marked == [entry EXCEPT !.is_minting_event = TRUE,
                                !.civic_log_processing_successful = TRUE]
    IN  IF Len(topics) < 1 THEN Raised(entry, "list index out of range")
        ELSE IF topics[1] # transfer_event_signature THEN Passed(entry)
        ELSE IF Len(topics) < 2 THEN Raised(entry, "list index out of range")
        ELSE IF to_checksum_address(Low20(topics[2])) # null THEN Passed(entry)
        ELSE IF Len(topics) < 3 THEN Raised(marked, "list index out of range")
        ELSE LET with_recipient ==
                     [marked EXCEPT !.recipient_address =
                                        Some(to_checksum_address(Low20(topics[3])))]
             IN  IF Len(topics) < 4
                 THEN Raised(with_recipient, "list index out of range")
                 ELSE Passed([with_recipient EXCEPT !.token_id = Some(ToInt(topics[4]))])

\* Line 136: for log in receipt["logs"], left at the first exception.
RECURSIVE ScanLogs(_, _, _)
ScanLogs(entry, logs, null) ==
    IF logs = <<>> THEN Passed(entry)
    ELSE LET one == ProcessLog(entry, Head(logs), null)
         IN  IF one.exception # None THEN one
             ELSE ScanLogs(one.entry, Tail(logs), null)

\* Lines 145-146.
NoMintingEvent(entry) ==
    IF ~entry.is_minting_event
    THEN [entry EXCEPT !.error = DictGet(entry, "error", Some("No minting event found in logs"))]
    ELSE entry

\* Lines 133-151.
StepGetReceipt(frame, client, cfg) ==
    LET called == [frame EXCEPT !.calls = Append(@, "get_transaction_receipt")]
        receipt == client.receipt
    IN  IF receipt.kind = "raise"
        THEN ReturnError(called, "Error processing event logs: connection failed")
        ELSE LET scanned == ScanLogs(frame.result_entry, receipt.logs, cfg.null_address)
             IN  IF scanned.exception # None
                 THEN ReturnError([called EXCEPT !.result_entry = scanned.entry],
                          "Error processing event logs: " \o scanned.exception[1])
                 ELSE [called EXCEPT !.pc = "returned",
                                     !.result_entry = NoMintingEvent(scanned.entry)]

Ended(frame) == frame.pc \in {"returned", "raised"}

\* The next stretch of a running task.
TaskStep(frame, client, cfg) ==
    CASE frame.pc = "get_transaction" -> StepGetTransaction(frame, client)
      [] frame.pc = "get_block"       -> StepGetBlock(frame, client, cfg)
      [] frame.pc = "decode"          -> StepDecode(frame)
      [] frame.pc = "get_receipt"     -> StepGetReceipt(frame, client, cfg)
      [] OTHER                        -> frame

\* process_transaction_task run alone from its first line to its end.
RECURSIVE RunFrom(_, _, _)
RunFrom(frame, client, cfg) ==
    IF Ended(frame) THEN frame ELSE RunFrom(TaskStep(frame, client, cfg), client, cfg)

process_transaction_task(hex_hash_string, client, cfg) ==
    RunFrom(TaskStart(hex_hash_string), client, cfg)

----------------------------------------------------------------------------
(* The inputs of a run. *)

EnvModes == {"privado", "civic", "worldid", "bogus"}

\* CONTRACT_ADDRESS: unset, set to the empty string, or an address.
ConfigAddresses == {None, Some(""), Some("0xC0")}

DefaultTx == Tx(Some(5), Some("0x70"), Some("0xgenesis"))

DefaultScenario == Scenario(DefaultTx, Block(Some(1700)), Receipt(<<MintA>>))

\* The answers one task is checked against: every way the steps before the
\* classification can fail, and every input of the mode's classification.
TaskScenarios(mode) ==
    {Scenario(TxRaises, Block(Some(1700)), Receipt(<<>>)),
     Scenario(TxAbsent, Block(Some(1700)), Receipt(<<>>))}
    \cup {Scenario(Tx(None, to, Some("0xgenesis")), Block(Some(1700)), Receipt(<<MintA>>)) :
             to \in ToAddresses}
    \cup {Scenario(Tx(Some(5), to, Some("0xgenesis")), block, Receipt(<<MintA>>)) :
             to \in ToAddresses, block \in Blocks}
    \cup (IF mode = "privado"
          THEN {Scenario(Tx(Some(5), to, input), Block(Some(1700)), ReceiptRaises) :
                   to \in ToAddresses, input \in CallData}
          ELSE IF mode = "civic"
          THEN {Scenario(Tx(Some(0), to, None), Block(Some(1700)), receipt) :
                   to \in ToAddresses, receipt \in Receipts}
          ELSE {})

\* The answers the tasks of a pool are checked against: a classification that
\* succeeds, one that finds nothing, and a call that raises at each step.
PoolScenarios(mode) ==
    {DefaultScenario,
     Scenario(TxRaises, Block(Some(1700)), Receipt(<<>>)),
     Scenario(Tx(Some(5), Some("0x70"), Some("0xgenesis")), BlockAbsent, Receipt(<<>>)),
     Scenario(Tx(Some(5), Some("0x70"), Some("0xdeadbeef")), Block(Some(1700)),
              Receipt(<<TransferLog>>)),
     Scenario(Tx(Some(5), Some("0x70"), Some("0x")), Block(Some(1700)), ReceiptRaises)}

\* The rows left after deduplication: n distinct hash strings.
HashRows(n) == {rows \in [1..n -> [text : 1..n, hex : BOOLEAN]] :
                   \A i \in 1..n : rows[i].text = i}

\* run_analytics does not call get_input_data_tx.
NotCalled == [pc |-> "not_called"]

NotStarted(pc, hex_hash_string) == [pc |-> pc, hex_hash_string |-> hex_hash_string]

\* One CSV row: the 'Transaction Hash' and 'Method' columns.
Row(hash, method) == [hash |-> hash, method |-> method]

\* The CSV holding the hashes `rows` once each, in this order.
PlainCsv(rows) == [i \in 1..Len(rows) |-> Row(rows[i], "mint")]

\* The CSV files built on the distinct hashes `rows`: the plain one, one with
\* a row of another method, and those repeating one hash in a later row.
CsvFiles(rows) ==
    {PlainCsv(rows), [PlainCsv(rows) EXCEPT ![1].method = "burn"]}
    \cup {Append(PlainCsv(rows), Row(rows[k], method)) :
             k \in 1..Len(rows), method \in {"mint", "burn"}}
    \cup {<<Row(rows[1], "mint")>> \o PlainCsv(rows)}

\* RPC_URL, TRANSACTIONS_CSV_PATH, ABI_JSON_PATH: unset, empty or set.
RequiredValues == {None, Some(""), Some("set")}

AllSet == [rpc_url |-> Some("set"), transactions_csv_path |-> Some("set"),
           abi_json_path |-> Some("set")]

\* The required settings with at most one of them unset or empty.
RequiredSettings ==
    {AllSet}
    \cup {[AllSet EXCEPT ![name] = value] :
             name \in {"rpc_url", "transactions_csv_path", "abi_json_path"},
             value \in RequiredValues}
    \cup {[rpc_url |-> None, transactions_csv_path |-> None, abi_json_path |-> None]}

\* What a run is started with: the sets the inputs are drawn from.
InitWith(sizes, addresses, scenarios, wide) ==
    \E n \in sizes, env_mode \in EnvModes, address \in addresses, workers \in 1..MaxHashes,
       required \in (IF wide THEN RequiredSettings ELSE {AllSet}),
       filter \in (IF wide THEN {{}, {"mint"}} ELSE {{}}),
       reachable \in (IF wide THEN BOOLEAN ELSE {TRUE}),
       readable \in (IF wide THEN BOOLEAN ELSE {TRUE}) :
      \E rows \in HashRows(n) :
        /\ workers <= n
        /\ wide => \A i \in 1..n : rows[i].hex
        /\ config = [analysis_mode |-> PostInitMode(env_mode),
                     rpc_url |-> required.rpc_url,
                     transactions_csv_path |-> required.transactions_csv_path,
                     abi_json_path |-> required.abi_json_path,
                     contract_address |-> address,
                     methods_to_filter |-> filter,
                     max_workers |-> workers,
                     null_address |-> null_address]
        /\ \E csv \in (IF wide THEN {None} \cup {Some(f) : f \in CsvFiles(rows)}
                               ELSE {Some(PlainCsv(rows))}) :
              env = [rpc_reachable |-> reachable, csv |-> csv, abi_readable |-> readable]
        /\ chain \in [1..n -> scenarios[config.analysis_mode]]
        /\ \A i \in 1..n : ~rows[i].hex => chain[i] = DefaultScenario
        /\ connected = FALSE
        /\ transactions_to_process = <<>>
        /\ main_pc = "check_config"
        /\ submitted = 0
        /\ work_queue = <<>>
        /\ task = <<>>
        /\ yielded = {}
        /\ completed_count = 0
        /\ raw_results = <<>>
        /\ decoder = NotCalled

\* A run over up to MaxHashes hashes.
Init == InitWith(1..MaxHashes, {None, Some("0xC0")},
                 [mode \in valid_modes |-> PoolScenarios(mode)], FALSE)

\* A run over one hash, over every answer of the client.
InitTask == InitWith({1}, ConfigAddresses,
                     [mode \in valid_modes |-> TaskScenarios(mode)], FALSE)

\* The pool's inputs without a configured contract address.
InitFair == InitWith(1..MaxHashes, {None}, [mode \in valid_modes |-> PoolScenarios(mode)], FALSE)

\* A run over every configuration, node and CSV file.
InitCsv == InitWith(1..MaxHashes, {None},
                    [mode \in valid_modes |-> {DefaultScenario}], TRUE)

----------------------------------------------------------------------------
(* run_analytics and the pool's workers. *)

NumTasks == Len(transactions_to_process)

\* Lines 180-184 with required_config = ["rpc_url"] only.
RequiredConfigRpcOnly(cfg) == Truthy(cfg.rpc_url)

\* Lines 180-184: all(getattr(config, attr) for attr in required_config).
RequiredConfigSet(cfg) ==
    Truthy(cfg.rpc_url) /\ Truthy(cfg.transactions_csv_path) /\ Truthy(cfg.abi_json_path)

\* Lines 179-191: a missing required setting ends the run.
CheckConfig ==
    /\ main_pc = "check_config"
    /\ main_pc' = IF RequiredConfigSet(config) THEN "connect" ELSE "returned"
    /\ UNCHANGED <<decoder, config, chain, env, connected, transactions_to_process, submitted,
                   work_queue, task, yielded, completed_count, raw_results>>

\* Lines 193-206: the client is created and the connection tested.
Connect ==
    /\ main_pc = "connect"
    /\ connected' = env.rpc_reachable
    /\ main_pc' = IF env.rpc_reachable THEN "read_csv" ELSE "returned"
    /\ UNCHANGED <<decoder, config, chain, env, transactions_to_process, submitted, work_queue,
                   task, yielded, completed_count, raw_results>>

\* Lines 219-225: keep the rows whose Method is in methods_to_filter, if any.
FilterRows(rows, methods_to_filter) ==
    IF methods_to_filter = {} THEN rows
    ELSE SelectSeq(rows, LAMBDA r : r.method \in methods_to_filter)

\* Line 232, drop_duplicates(subset=['Transaction Hash']): the first row of
\* each hash is kept.
RECURSIVE DropDuplicates(_)
DropDuplicates(rows) ==
    IF rows = <<>> THEN <<>>
    ELSE LET kept == DropDuplicates(SubSeq(rows, 1, Len(rows) - 1))
             last == rows[Len(rows)]
         IN  IF \E k \in 1..Len(kept) : kept[k].hash = last.hash
             THEN kept ELSE Append(kept, last)

\* Lines 227-231 and 274 without the drop_duplicates of line 232.
HashesWithDuplicates(csv, methods_to_filter) ==
    LET rows == FilterRows(csv, methods_to_filter)
    IN  [i \in 1..Len(rows) |-> rows[i].hash]

\* Lines 227-232 and 274: the hash strings of the rows to process.
HashesToProcess(csv, methods_to_filter) ==
    LET rows == DropDuplicates(FilterRows(csv, methods_to_filter))
    IN  [i \in 1..Len(rows) |-> rows[i].hash]

\* Lines 208-249: the CSV is read, filtered and deduplicated.
ReadCsv ==
    /\ main_pc = "read_csv"
    /\ IF env.csv = None
       THEN /\ main_pc' = "returned"
            /\ UNCHANGED <<transactions_to_process, task>>
       ELSE /\ main_pc' = "read_abi"
            /\ transactions_to_process' = HashesToProcess(env.csv[1], config.methods_to_filter)
            /\ task' = [i \in 1..Len(transactions_to_process') |->
                           NotStarted("unsubmitted", transactions_to_process'[i])]
    /\ UNCHANGED <<decoder, config, chain, env, connected, submitted, work_queue, yielded,
                   completed_count, raw_results>>

\* Lines 251-267: the ABI is read; the pool is entered.
ReadAbi ==
    /\ main_pc = "read_abi"
    /\ main_pc' = IF ~env.abi_readable THEN "returned"
                  ELSE IF NumTasks = 0 THEN "as_completed" ELSE "submit"
    /\ UNCHANGED <<decoder, config, chain, env, connected, transactions_to_process, submitted,
                   work_queue, task, yielded, completed_count, raw_results>>

Running == {i \in 1..NumTasks : task[i].pc \in {"get_transaction", "get_block", "decode", "get_receipt"}}

\* Lines 270-282: executor.submit for the next row.
Submit ==
    /\ main_pc = "submit"
    /\ submitted < NumTasks
    /\ submitted' = submitted + 1
    /\ work_queue' = Append(work_queue, submitted + 1)
    /\ task' = [task EXCEPT ![submitted + 1].pc = "queued"]
    /\ main_pc' = IF submitted + 1 = NumTasks THEN "as_completed" ELSE "submit"
    /\ UNCHANGED <<decoder, config, chain, env, connected, transactions_to_process, yielded, completed_count, raw_results>>

\* A pool that starts a thread per submitted task, whatever max_workers says.
StartTaskUnbounded ==
    /\ work_queue # <<>>
    /\ LET i == Head(work_queue)
       IN  task' = [task EXCEPT ![i] = TaskStart(transactions_to_process[i])]
    /\ work_queue' = Tail(work_queue)
    /\ UNCHANGED <<decoder, config, chain, env, connected, transactions_to_process, main_pc, submitted, yielded,
                   completed_count, raw_results>>

\* A free worker takes the oldest queued task and runs it up to its first call.
StartTask ==
    /\ work_queue # <<>>
    /\ Cardinality(Running) < config.max_workers
    /\ LET i == Head(work_queue)
       IN  task' = [task EXCEPT ![i] = TaskStart(transactions_to_process[i])]
    /\ work_queue' = Tail(work_queue)
    /\ UNCHANGED <<decoder, config, chain, env, connected, transactions_to_process, main_pc, submitted, yielded,
                   completed_count, raw_results>>

\* A worker that appends its entry to raw_results itself when its task returns.
WorkerStepAppends(i) ==
    /\ i \in Running
    /\ LET frame == TaskStep(task[i], chain[task[i].tx_hash_bytes], config)
       IN  /\ task' = [task EXCEPT ![i] = frame]
           /\ raw_results' = IF frame.pc = "returned"
                             THEN Append(raw_results, frame.result_entry)
                             ELSE raw_results
    /\ UNCHANGED <<decoder, config, chain, env, connected, transactions_to_process, main_pc, submitted, work_queue,
                   yielded, completed_count>>

\* A worker runs its task from one client call up to the next.
WorkerStep(i) ==
    /\ i \in Running
    /\ task' = [task EXCEPT ![i] = TaskStep(task[i], chain[task[i].tx_hash_bytes], config)]
    /\ UNCHANGED <<decoder, config, chain, env, connected, transactions_to_process, main_pc, submitted, work_queue,
                   yielded, completed_count, raw_results>>

\* Lines 298-310 with only the hash and the error in the failed entry.
FailedEntryShort(hex_hash_string, exception) ==
    [transaction_hash |-> hex_hash_string,
     error |-> Some("Task execution failed: " \o exception)]

\* Lines 298-310.
FailedEntry(hex_hash_string, exception) ==
    [InitialEntry(hex_hash_string) EXCEPT !.error = Some("Task execution failed: " \o exception)]

\* Lines 293-311: future.result() returns the entry or raises what the task raised.
CollectedEntry(frame, hex_hash_string) ==
    IF frame.pc = "returned" THEN frame.result_entry
    ELSE FailedEntry(hex_hash_string, frame.exception[1])

\* Collect without the try/except of lines 293-311: what a task raised leaves
\* the loop and ends run_analytics.
CollectUncaught(i) ==
    /\ main_pc = "as_completed"
    /\ i \in 1..NumTasks
    /\ i \notin yielded
    /\ Ended(task[i])
    /\ yielded' = yielded \cup {i}
    /\ completed_count' = completed_count + 1
    /\ IF task[i].pc = "raised"
       THEN main_pc' = "aborted" /\ raw_results' = raw_results
       ELSE main_pc' = main_pc /\ raw_results' = Append(raw_results, task[i].result_entry)
    /\ UNCHANGED <<decoder, config, chain, env, connected, transactions_to_process, submitted, work_queue, task>>

\* Collect leaving the loop after the first failed entry.
CollectBreakOnFailure(i) ==
    /\ main_pc = "as_completed"
    /\ i \in 1..NumTasks
    /\ i \notin yielded
    /\ Ended(task[i])
    /\ yielded' = yielded \cup {i}
    /\ completed_count' = completed_count + 1
    /\ raw_results' = Append(raw_results, CollectedEntry(task[i], transactions_to_process[i]))
    /\ main_pc' = IF CollectedEntry(task[i], transactions_to_process[i]).error # None
                  THEN "aggregate" ELSE main_pc
    /\ UNCHANGED <<decoder, config, chain, env, connected, transactions_to_process, submitted, work_queue, task>>

\* Collect with one result_entry object shared by the workers: the entry
\* appended for a future is the one of whichever finished task wrote last.
CollectSharedEntry(i) ==
    /\ main_pc = "as_completed"
    /\ i \in 1..NumTasks
    /\ i \notin yielded
    /\ Ended(task[i])
    /\ yielded' = yielded \cup {i}
    /\ completed_count' = completed_count + 1
    /\ \E j \in 1..NumTasks :
          /\ Ended(task[j])
          /\ raw_results' = Append(raw_results, CollectedEntry(task[j], transactions_to_process[j]))
    /\ UNCHANGED <<decoder, config, chain, env, connected, transactions_to_process, main_pc, submitted, work_queue, task>>

\* Lines 285-311: as_completed yields a finished future; its entry is appended.
Collect(i) ==
    /\ main_pc = "as_completed"
    /\ i \in 1..NumTasks
    /\ i \notin yielded
    /\ Ended(task[i])
    /\ yielded' = yielded \cup {i}
    /\ completed_count' = completed_count + 1
    /\ raw_results' = Append(raw_results, CollectedEntry(task[i], transactions_to_process[i]))
    /\ UNCHANGED <<decoder, config, chain, env, connected, transactions_to_process, main_pc, submitted, work_queue, task>>

\* Lines 285-318 leaving the loop and the with block after the first future,
\* as with wait(return_when=FIRST_COMPLETED) and shutdown(wait=False).
ExitPoolOnFirst ==
    /\ main_pc = "as_completed"
    /\ yielded # {}
    /\ main_pc' = "aggregate"
    /\ UNCHANGED <<decoder, config, chain, env, connected, transactions_to_process, submitted, work_queue, task,
                   yielded, completed_count, raw_results>>

\* Lines 311-318: the loop and the with block end once every future was yielded.
ExitPool ==
    /\ main_pc = "as_completed"
    /\ yielded = 1..NumTasks
    /\ main_pc' = "aggregate"
    /\ UNCHANGED <<decoder, config, chain, env, connected, transactions_to_process, submitted, work_queue, task,
                   yielded, completed_count, raw_results>>

\* Lines 320-350: the charts and the CSV are written from raw_results.
Aggregate ==
    /\ main_pc = "aggregate"
    /\ main_pc' = "done"
    /\ UNCHANGED <<decoder, config, chain, env, connected, transactions_to_process, submitted, work_queue, task,
                   yielded, completed_count, raw_results>>

Next ==
    \/ CheckConfig
    \/ Connect
    \/ ReadCsv
    \/ ReadAbi
    \/ Submit
    \/ StartTask
    \/ \E i \in 1..NumTasks : WorkerStep(i)
    \/ \E i \in 1..NumTasks : Collect(i)
    \/ ExitPool
    \/ Aggregate

Spec == Init /\ [][Next]_vars

SpecTask == InitTask /\ [][Next]_vars

SpecCsv == InitCsv /\ [][Next]_vars

\* Every client call returns or raises, the pool's workers and the main thread
\* keep being scheduled: a step that can be taken is eventually taken.  No
\* step of the run can be repeated, so this is all the fairness needed.
SpecFair == InitFair /\ [][Next]_vars /\ WF_vars(Next)

----------------------------------------------------------------------------
(* get_input_data_tx (src/src/tx_details.py), one operator per stretch of  *)
(* code between two calls into the library.  The frame holds the           *)
(* arguments, the calls made so far, and what the function returned; pc    *)
(* "raised" is an exception leaving the function.                          *)

\* contract_abi: a list the library accepts as an ABI, or one it rejects.
AbiLists == {"abi", "not an abi"}

InputStart(tx_hash, contract_abi, verbose) ==
    [pc |-> "get_transaction",
     tx_hash |-> tx_hash,
     contract_abi |-> contract_abi,
     verbose |-> verbose,
     calls |-> <<>>,
     input_data |-> None,
     contract_address |-> None,
     return_value |-> None,
     exception |-> None]

\* A return statement.
InputReturn(frame, value) == [frame EXCEPT !.pc = "returned", !.return_value = value]

\* Lines 73-75: the outer handler prints the exception and returns None.
InputOuterExcept(frame) == InputReturn(frame, None)

\* Lines 26-43 without the test of line 40.
InputGetTransactionNoTest(frame, client) ==
    LET called == [frame EXCEPT !.calls = Append(@, "get_transaction")]
        tx == client.tx
    IN  IF tx.kind = "raise" THEN InputOuterExcept(called)
        ELSE IF tx.kind = "none" THEN InputReturn(called, None)
        ELSE [called EXCEPT !.pc = "contract",
                            !.input_data = tx.input,
                            !.contract_address = tx.to]

\* Lines 26-43: the transaction is fetched; absent, without input or
\* without a target it ends the call.
InputGetTransaction(frame, client) ==
    LET called == [frame EXCEPT !.calls = Append(@, "get_transaction")]
        tx == client.tx
    IN  IF tx.kind = "raise" THEN InputOuterExcept(called)
        ELSE IF tx.kind = "none" THEN InputReturn(called, None)
        ELSE IF ~Truthy(tx.input) \/ tx.input = Some("0x") \/ ~Truthy(tx.to)
        THEN InputReturn(called, None)
        ELSE [called EXCEPT !.pc = "contract",
                            !.input_data = tx.input,
                            !.contract_address = tx.to]

\* Lines 45-52: the contract instance; the library rejects a bad ABI.
InputCreateContract(frame) ==
    LET called == [frame EXCEPT !.calls = Append(@, "contract")]
    IN  IF frame.contract_abi = "abi"
        THEN [called EXCEPT !.pc = "decode_function_input"]
        ELSE InputReturn(called, None)

\* Line 55, contract.decode_function_input: the pair of the function and its
\* parameters, or an exception when the call data is empty, no function of
\* the ABI has its selector, or its parameters do not decode.
decode_function_input(input_data) ==
    LET decoded == decode_transaction_input(input_data, Some("contract"))
    IN  IF decoded = None
        THEN [kind |-> "raise"]
        ELSE [kind |-> "decoded", fn_name |-> decoded[1][1], func_params |-> decoded[1][2]]

\* Lines 54-71.
InputDecode(frame) ==
    LET called == [frame EXCEPT !.calls = Append(@, "decode_function_input")]
        decoded == decode_function_input(frame.input_data)
    IN  IF decoded.kind = "raise"
        THEN InputReturn(called, None)
        ELSE InputReturn(called, Some(<<decoded.fn_name, decoded.func_params>>))

InputEnded(frame) == frame.pc \in {"returned", "raised"}

InputStep(frame, client) ==
    CASE frame.pc = "get_transaction" -> InputGetTransaction(frame, client)
      [] frame.pc = "contract"        -> InputCreateContract(frame)
      [] OTHER                        -> InputDecode(frame)

RECURSIVE InputRunFrom(_, _)
InputRunFrom(frame, client) ==
    IF InputEnded(frame) THEN frame ELSE InputRunFrom(InputStep(frame, client), client)

\* The whole call.
get_input_data_tx(client, tx_hash, contract_abi, verbose) ==
    InputRunFrom(InputStart(tx_hash, contract_abi, verbose), client)

\* The transactions get_input_data_tx is called on.
DecoderTxs ==
    {TxRaises, TxAbsent}
    \cup {Tx(Some(5), to, input) : to \in ToAddresses, input \in CallData}

\* One call of get_input_data_tx on one hash, outside any run.
InitDecoder ==
    \E tx \in DecoderTxs, contract_abi \in AbiLists, verbose \in BOOLEAN :
        /\ decoder = InputStart(1, contract_abi, verbose)
        /\ chain = <<Scenario(tx, Block(Some(1700)), Receipt(<<>>))>>
        /\ config = [analysis_mode |-> PostInitMode("privado"),
                     rpc_url |-> AllSet.rpc_url,
                     transactions_csv_path |-> AllSet.transactions_csv_path,
                     abi_json_path |-> AllSet.abi_json_path,
                     contract_address |-> None,
                     methods_to_filter |-> {},
                     max_workers |-> 1,
                     null_address |-> null_address]
        /\ env = [rpc_reachable |-> TRUE, csv |-> None, abi_readable |-> TRUE]
        /\ connected = TRUE
        /\ transactions_to_process = <<>>
        /\ main_pc = "returned"
        /\ submitted = 0
        /\ work_queue = <<>>
        /\ task = <<>>
        /\ yielded = {}
        /\ completed_count = 0
        /\ raw_results = <<>>

RunUnchanged ==
    UNCHANGED <<config, chain, env, connected, transactions_to_process, main_pc, submitted,
                work_queue, task, yielded, completed_count, raw_results>>

DecoderGetTransaction ==
    /\ decoder.pc = "get_transaction"
    /\ decoder' = InputGetTransaction(decoder, chain[decoder.tx_hash])
    /\ RunUnchanged

DecoderCreateContract ==
    /\ decoder.pc = "contract"
    /\ decoder' = InputCreateContract(decoder)
    /\ RunUnchanged

DecoderDecode ==
    /\ decoder.pc = "decode_function_input"
    /\ decoder' = InputDecode(decoder)
    /\ RunUnchanged

NextDecoder ==
    \/ DecoderGetTransaction
    \/ DecoderCreateContract
    \/ DecoderDecode

SpecDecoder == InitDecoder /\ [][NextDecoder]_vars

----------------------------------------------------------------------------
(* What a scenario lets a task reach, read off the client's answers.       *)

TxFound(s) == s.tx.kind = "tx"

Mined(s) == TxFound(s) /\ s.tx.blockNumber # None

Timestamped(s) == Mined(s) /\ s.block.kind = "block" /\ s.block.timestamp # None

Addressed(s) == Timestamped(s) /\ (Truthy(config.contract_address) \/ Truthy(s.tx.to))

Tasks == 1..NumTasks

HashOf(i) == transactions_to_process[i]

\* What the client answers for the hash of task i.
ScenarioOf(i) == chain[HexBytes(HashOf(i)).bytes]

Started(i) == task[i].pc \notin {"unsubmitted", "queued"}

Returned(i) == task[i].pc = "returned"

\* The positions of run_analytics; an exception that leaves it is none of them.
MainPositions == {"check_config", "connect", "read_csv", "read_abi", "submit",
                  "as_completed", "aggregate", "done", "returned"}

PoolFinished == main_pc \in {"aggregate", "done"}

\* The positions of raw_results that hold an entry for hash i.
EntriesOf(i) == {k \in 1..Len(raw_results) : raw_results[k].transaction_hash = HashOf(i)}

BothFlagsFalse(e) == ~e.privado_decoding_successful /\ ~e.civic_log_processing_successful

----------------------------------------------------------------------------
(* C1: once the pool has finished, raw_results holds exactly one entry per *)
(* submitted hash and no other entry, whether the tasks succeeded,         *)
(* returned an error entry or raised.                                      *)
C1_PipelineCompleteness ==
    /\ main_pc \in MainPositions
    /\ PoolFinished =>
          /\ Len(raw_results) = NumTasks
          /\ \A i \in Tasks : Cardinality(EntriesOf(i)) = 1

\* A finished run of two hashes with one worker, where one task raised and
\* the other decoded its transaction.
C1_Witness ==
    /\ main_pc = "done"
    /\ NumTasks = 2
    /\ config.max_workers = 1
    /\ \E i, j \in Tasks :
          /\ task[i].pc = "raised"
          /\ Returned(j)
          /\ task[j].result_entry.privado_decoding_successful
    /\ Len(raw_results) = 2

----------------------------------------------------------------------------
(* C2: a failure of one item never aborts its siblings.  No exception      *)
(* leaves the as_completed loop; once the pool has finished every hash has *)
(* the entry process_transaction_task yields for it when run alone; and    *)
(* the entry of a task whose client call raised, whose hash could not be   *)
(* converted, or that raised, has both success flags false and an error.   *)

\* A client call of task i raises, or its hash string is not hexadecimal.
FailsByException(i) ==
    LET s == ScenarioOf(i)
    IN  \/ ~HashOf(i).hex
        \/ s.tx.kind = "raise"
        \/ Mined(s) /\ s.block.kind = "raise"
        \/ Addressed(s) /\ config.analysis_mode = "civic" /\ s.receipt.kind = "raise"

EntryAlone(i) ==
    CollectedEntry(process_transaction_task(HashOf(i), ScenarioOf(i), config), HashOf(i))

C2_FailureIsolation ==
    /\ main_pc \in MainPositions
    /\ \A k \in 1..Len(raw_results) : \E i \in Tasks :
          /\ raw_results[k] = EntryAlone(i)
          /\ FailsByException(i) =>
                BothFlagsFalse(raw_results[k]) /\ raw_results[k].error # None
    /\ PoolFinished => \A i \in Tasks : \E k \in 1..Len(raw_results) :
                          raw_results[k] = EntryAlone(i)

\* A finished run where the first hash could not be converted and the second
\* hash, started after it, has its successful entry.
C2_Witness ==
    /\ PoolFinished
    /\ NumTasks = 2
    /\ ~HashOf(1).hex
    /\ ~FailsByException(2)
    /\ \E k \in 1..Len(raw_results) :
          /\ raw_results[k].transaction_hash = HashOf(2)
          /\ raw_results[k].error = None
    /\ \E k \in 1..Len(raw_results) :
          /\ raw_results[k].transaction_hash = HashOf(1)
          /\ raw_results[k].error # None

----------------------------------------------------------------------------
(* C3: the steps of a task run in the order get_transaction, get_block,    *)
(* address resolution, classification, each only after the earlier ones    *)
(* succeeded: get_block is called only for a mined transaction, and the    *)
(* call decoder (privado) and the receipt fetch (civic) only for a         *)
(* transaction that was found, is mined, has a timestamp and an address.   *)

CallOrders == {<<>>,
               <<"get_transaction">>,
               <<"get_transaction", "get_block">>,
               <<"get_transaction", "get_block", "decode_transaction_input">>,
               <<"get_transaction", "get_block", "get_transaction_receipt">>}

Called(i, name) == \E k \in 1..Len(task[i].calls) : task[i].calls[k] = name

C3_StepOrder ==
    \A i \in Tasks : Started(i) =>
        /\ task[i].calls \in CallOrders
        /\ Called(i, "get_transaction") => HashOf(i).hex
        /\ Called(i, "get_block") => Mined(ScenarioOf(i))
        /\ Called(i, "decode_transaction_input") =>
              Addressed(ScenarioOf(i)) /\ config.analysis_mode = "privado"
        /\ Called(i, "get_transaction_receipt") =>
              Addressed(ScenarioOf(i)) /\ config.analysis_mode = "civic"
        /\ (Returned(i) /\ Addressed(ScenarioOf(i)) /\ config.analysis_mode \in {"privado", "civic"})
              => Len(task[i].calls) = 3

\* A civic task that returned after get_block because neither the
\* configuration nor the transaction gave an address.
C3_Witness ==
    \E i \in Tasks :
        /\ Returned(i)
        /\ config.analysis_mode = "civic"
        /\ Timestamped(ScenarioOf(i))
        /\ ~Addressed(ScenarioOf(i))
        /\ task[i].calls = <<"get_transaction", "get_block">>

----------------------------------------------------------------------------
(* C4: a failure before the classification yields an entry with both       *)
(* success flags false and the error of the failing step: transaction      *)
(* absent, not-found; no block number, pending, timestamp null; block      *)
(* absent or without timestamp, a block/timestamp error, timestamp null;   *)
(* no address from the configuration or the transaction's `to`,            *)
(* address-unavailable.  A non-empty configured address is the one used,   *)
(* whatever the transaction's `to`.                                        *)

ErrorEntry(i, timestamp, message) ==
    [InitialEntry(HashOf(i)) EXCEPT !.timestamp = timestamp, !.error = Some(message)]

C4_PreClassificationErrors ==
    \A i \in Tasks : Returned(i) =>
        LET s == ScenarioOf(i)
            e == task[i].result_entry
        IN  /\ s.tx.kind = "none" => e = ErrorEntry(i, None, "Transaction not found")
            /\ (TxFound(s) /\ ~Mined(s)) =>
                  e = ErrorEntry(i, None, "Transaction is pending (no block number)")
            /\ (Mined(s) /\ s.block.kind = "none") =>
                  e = ErrorEntry(i, None,
                          "Error fetching block or timestamp: 'NoneType' object has no attribute 'get'")
            /\ (Mined(s) /\ s.block.kind = "block" /\ s.block.timestamp = None) =>
                  e = ErrorEntry(i, None, "Block found but no timestamp")
            /\ (Timestamped(s) /\ ~Addressed(s)) =>
                  e = ErrorEntry(i, s.block.timestamp,
                          "Contract address not available for processing in this mode")
            /\ (Timestamped(s) /\ Truthy(config.contract_address)) =>
                  task[i].address_for_mode_processing = config.contract_address
            /\ (Addressed(s) /\ ~Truthy(config.contract_address)) =>
                  task[i].address_for_mode_processing = s.tx.to

\* A task that returned the address-unavailable entry: CONTRACT_ADDRESS is the
\* empty string and the transaction creates a contract (no `to`).
C4_Witness ==
    \E i \in Tasks :
        /\ Returned(i)
        /\ config.contract_address = Some("")
        /\ Timestamped(ScenarioOf(i))
        /\ ScenarioOf(i).tx.to = None
        /\ task[i].result_entry.error =
               Some("Contract address not available for processing in this mode")
        /\ task[i].result_entry.timestamp # None
        /\ BothFlagsFalse(task[i].result_entry)

----------------------------------------------------------------------------
(* Civic mode: the logs the claims speak of. *)

\* Task i returned after fetching its receipt in civic mode.
CivicClassified(i) ==
    /\ Returned(i)
    /\ config.analysis_mode = "civic"
    /\ Addressed(ScenarioOf(i))
    /\ ScenarioOf(i).receipt.kind = "receipt"

LogsOf(i) == ScenarioOf(i).receipt.logs

\* The Log Decoder's match: the Transfer topic and exactly 3 more topics.
MatchesTransfer(log) ==
    /\ Len(log.topics) = 4
    /\ log.topics[1] = transfer_event_signature

FromNull(log) ==
    /\ Len(log.topics) >= 2
    /\ log.topics[1] = transfer_event_signature
    /\ to_checksum_address(Low20(log.topics[2])) = config.null_address

IsMintLog(log) == MatchesTransfer(log) /\ FromNull(log)

MintPositions(logs) == {k \in 1..Len(logs) : IsMintLog(logs[k])}

TakenFrom(e, log) ==
    /\ e.recipient_address = Some(to_checksum_address(Low20(log.topics[3])))
    /\ e.token_id = Some(ToInt(log.topics[4]))

Min(S) == CHOOSE x \in S : \A y \in S : x <= y

----------------------------------------------------------------------------
(* C5: in civic mode, for a receipt of Transfer logs with two or more      *)
(* logs from the null address, recipient_address and token_id are those    *)
(* of the earliest such log.                                               *)
C5_FirstMintWins ==
    \A i \in Tasks :
        (/\ CivicClassified(i)
         /\ \A k \in 1..Len(LogsOf(i)) : Len(LogsOf(i)[k].topics) = 4
         /\ Cardinality(MintPositions(LogsOf(i))) >= 2)
        => TakenFrom(task[i].result_entry, LogsOf(i)[Min(MintPositions(LogsOf(i)))])

----------------------------------------------------------------------------
(* C6: in civic mode, when the receipt was fetched and no log is a         *)
(* Transfer from the null address, the entry has is_minting_event false    *)
(* and a non-null error.                                                   *)
C6_NoMintingEventRecorded ==
    \A i \in Tasks :
        (/\ CivicClassified(i)
         /\ \A k \in 1..Len(LogsOf(i)) : ~FromNull(LogsOf(i)[k]))
        => /\ ~task[i].result_entry.is_minting_event
           /\ task[i].result_entry.error # None

----------------------------------------------------------------------------
(* C7: in civic mode a log that is not a Transfer with exactly 3 more      *)
(* topics is skipped without an error and without changing the entry: a   *)
(* receipt whose only matching log is a mint, at any position among        *)
(* non-matching logs, yields a mint entry taken from that log, with no     *)
(* error.                                                                  *)
C7_NonMatchingSkipped ==
    \A i \in Tasks :
        (/\ CivicClassified(i)
         /\ \E k \in 1..Len(LogsOf(i)) :
               /\ IsMintLog(LogsOf(i)[k])
               /\ \A j \in 1..Len(LogsOf(i)) : j # k => ~MatchesTransfer(LogsOf(i)[j]))
        => LET e == task[i].result_entry
               k == Min(MintPositions(LogsOf(i)))
           IN  /\ e.is_minting_event
               /\ e.civic_log_processing_successful
               /\ TakenFrom(e, LogsOf(i)[k])
               /\ e.error = None

----------------------------------------------------------------------------
(* C8: in privado mode, when the decoder returns (function, parameters),   *)
(* the entry has privado_decoding_successful, decoded_function and         *)
(* decoded_parameters set to the pair, and is_genesis_transition is true   *)
(* exactly when the parameters hold isOldStateGenesis with the boolean     *)
(* value true.                                                             *)

PrivadoClassified(i) ==
    /\ Returned(i)
    /\ config.analysis_mode = "privado"
    /\ Addressed(ScenarioOf(i))

DecodedFor(i) ==
    decode_transaction_input(ScenarioOf(i).tx.input,
                             IF Truthy(config.contract_address)
                             THEN config.contract_address ELSE ScenarioOf(i).tx.to)

C8_PrivadoDecoded ==
    \A i \in Tasks :
        (PrivadoClassified(i) /\ DecodedFor(i) # None) =>
            LET e == task[i].result_entry
                parameters == DecodedFor(i)[1][2]
            IN  /\ e.privado_decoding_successful
                /\ e.decoded_function = Some(DecodedFor(i)[1][1])
                /\ e.decoded_parameters = Some(parameters)
                /\ e.is_genesis_transition <=> parameters \in {GenesisParams}
                /\ e.error = None

\* A decoded call whose isOldStateGenesis is the integer 1: decoded, and not
\* a genesis transition.
C8_Witness ==
    \E i \in Tasks :
        /\ PrivadoClassified(i)
        /\ ScenarioOf(i).tx.input = Some("0xgenesis1")
        /\ task[i].result_entry.privado_decoding_successful
        /\ task[i].result_entry.decoded_parameters = Some(IntGenesisParams)
        /\ ~task[i].result_entry.is_genesis_transition

----------------------------------------------------------------------------
(* C9: in privado mode, a transaction without decodable call data yields   *)
(* privado_decoding_successful false, a non-null error, and the mint       *)
(* fields at their initial values; no privado entry has a mint field set   *)
(* and the receipt is never fetched.                                       *)
C9_PrivadoUndecodable ==
    \A i \in Tasks :
        /\ (PrivadoClassified(i) /\ DecodedFor(i) = None) =>
              /\ ~task[i].result_entry.privado_decoding_successful
              /\ task[i].result_entry.error # None
        /\ (Returned(i) /\ config.analysis_mode = "privado") =>
              /\ ~task[i].result_entry.is_minting_event
              /\ task[i].result_entry.recipient_address = None
              /\ task[i].result_entry.token_id = None
              /\ ~task[i].result_entry.civic_log_processing_successful
              /\ ~Called(i, "get_transaction_receipt")

----------------------------------------------------------------------------
(* C10: with a mode other than privado and civic, every item that passes   *)
(* the fetch steps returns an entry with both flags false and the          *)
(* unsupported-mode error, without a decoder or receipt call; the run      *)
(* does not abort and ends with one entry per hash.                        *)
C10_UnsupportedMode ==
    config.analysis_mode \notin {"privado", "civic"} =>
        /\ \A i \in Tasks : (Returned(i) /\ Addressed(ScenarioOf(i))) =>
              /\ task[i].result_entry =
                     ErrorEntry(i, ScenarioOf(i).block.timestamp,
                                "Unsupported analysis mode: " \o config.analysis_mode)
              /\ task[i].calls = <<"get_transaction", "get_block">>
        /\ main_pc \in MainPositions
        /\ PoolFinished =>
              /\ Len(raw_results) = NumTasks
              /\ \A i \in Tasks : Cardinality(EntriesOf(i)) = 1

\* A finished worldid run of two hashes, both past the fetch steps, both
\* entries carrying the unsupported-mode error.
C10_Witness ==
    /\ config.analysis_mode = "worldid"
    /\ main_pc = "done"
    /\ NumTasks = 2
    /\ \A i \in Tasks : Returned(i) /\ Addressed(ScenarioOf(i))
    /\ \A k \in 1..Len(raw_results) :
          raw_results[k].error = Some("Unsupported analysis mode: worldid")
    /\ Len(raw_results) = 2

----------------------------------------------------------------------------
(* C11: a missing required setting (RPC URL, CSV path, ABI path) ends the  *)
(* run at the configuration check: no connection is made, no task is       *)
(* created or submitted, and no entry and no output is produced.           *)
RequiredNames == {"rpc_url", "transactions_csv_path", "abi_json_path"}

MissingRequired == \E name \in RequiredNames : ~Truthy(config[name])

C11_MissingConfigEndsRun ==
    MissingRequired =>
        /\ main_pc \in {"check_config", "returned"}
        /\ ~connected
        /\ transactions_to_process = <<>>
        /\ task = <<>>
        /\ submitted = 0
        /\ work_queue = <<>>
        /\ raw_results = <<>>

\* A run that returned at the check for its missing ABI path alone, with a
\* reachable node and a readable CSV file that it never used.
C11_Witness ==
    /\ main_pc = "returned"
    /\ config.abi_json_path = None
    /\ Truthy(config.rpc_url)
    /\ Truthy(config.transactions_csv_path)
    /\ env.rpc_reachable
    /\ env.csv # None
    /\ ~connected

----------------------------------------------------------------------------
(* C12: every entry, returned by a task on any path or built for a task    *)
(* that raised, has exactly the eleven keys of the record.                 *)

EntryKeys == {"transaction_hash", "timestamp", "decoded_function", "decoded_parameters",
              "is_genesis_transition", "privado_decoding_successful", "is_minting_event",
              "recipient_address", "token_id", "civic_log_processing_successful", "error"}

C12_FullRecord ==
    /\ Cardinality(EntryKeys) = 11
    /\ \A k \in 1..Len(raw_results) : DOMAIN raw_results[k] = EntryKeys
    /\ \A i \in Tasks : Started(i) => DOMAIN task[i].result_entry = EntryKeys

\* The failed entry of a task that raised, in the report.
C12_Witness ==
    \E i \in Tasks :
        /\ task[i].pc = "raised"
        /\ \E k \in 1..Len(raw_results) :
              /\ raw_results[k].transaction_hash = HashOf(i)
              /\ raw_results[k].error = Some("Task execution failed: ValueError")
              /\ raw_results[k].timestamp = None

----------------------------------------------------------------------------
(* C13: the run takes every submitted item to completion before it         *)
(* returns.  Under fair scheduling of terminating client calls, a run that *)
(* starts submitting ends with an entry in raw_results for every submitted *)
(* hash; and aggregation never starts while a task is pending or running.  *)

AllCollected == \A i \in Tasks : Ended(task[i]) /\ i \in yielded /\ EntriesOf(i) # {}

C13_RunsToCompletion ==
    /\ [](PoolFinished => AllCollected /\ work_queue = <<>> /\ Running = {})
    /\ (main_pc = "submit") ~> (main_pc = "done" /\ submitted = NumTasks /\ AllCollected)

\* A run that is still collecting while one task runs and another waits in
\* the queue, so that leaving now would leave two items unfinished.
C13_Witness ==
    /\ main_pc = "as_completed"
    /\ Running # {}
    /\ work_queue # <<>>
    /\ yielded = {}

----------------------------------------------------------------------------
(* C14: at every moment at most max_workers tasks are inside               *)
(* process_transaction_task; the submitted tasks beyond that wait in the   *)
(* pool's queue, in submission order, until a worker is free.              *)

Queued == {i \in Tasks : task[i].pc = "queued"}

C14_WorkerLimit ==
    /\ config.max_workers >= 1
    /\ Cardinality(Running) <= config.max_workers
    /\ Queued = {work_queue[k] : k \in 1..Len(work_queue)}
    /\ \A k \in 1..Len(work_queue) - 1 : work_queue[k] < work_queue[k + 1]
    /\ (work_queue # <<>> /\ Cardinality(Running) < config.max_workers) => ENABLED StartTask

\* One worker, busy with the first of two submitted tasks while the second
\* waits in the queue.
C14_Witness ==
    /\ config.max_workers = 1
    /\ Cardinality(Running) = 1
    /\ Queued # {}
    /\ submitted = 2

----------------------------------------------------------------------------
(* C16: no interleaving loses or duplicates an entry.  raw_results changes *)
(* only by the collecting thread appending the entry of one finished       *)
(* future that it has not yet collected; a worker's step changes its own   *)
(* frame only and leaves raw_results alone; a finished frame never changes.*)

SameTasks == DOMAIN task' = DOMAIN task

C16_CollectorAppends ==
    raw_results' # raw_results =>
        /\ main_pc = "as_completed"
        /\ task' = task
        /\ \E i \in Tasks \ yielded :
              /\ Ended(task[i])
              /\ yielded' = yielded \cup {i}
              /\ raw_results' = Append(raw_results, CollectedEntry(task[i], HashOf(i)))

C16_WorkerOwnsEntry ==
    (SameTasks /\ task' # task) =>
        /\ raw_results' = raw_results
        /\ yielded' = yielded
        /\ \E i \in Tasks : /\ ~Ended(task[i])
                            /\ \A j \in Tasks \ {i} : task'[j] = task[j]

C16_OneAppendPerFuture ==
    /\ Len(raw_results) = Cardinality(yielded)
    /\ \A i \in Tasks : Cardinality(EntriesOf(i)) = (IF i \in yielded THEN 1 ELSE 0)

C16_SingleWriter ==
    /\ [][C16_CollectorAppends /\ C16_WorkerOwnsEntry]_vars
    /\ []C16_OneAppendPerFuture

\* Two workers: one future was collected while the other task is between
\* two client calls, holding an entry that differs from the one of its start.
C16_Witness ==
    /\ Len(raw_results) = 1
    /\ \E i \in Running : task[i].result_entry # InitialEntry(HashOf(i))

----------------------------------------------------------------------------
(* C15: call data shorter than the parameter types of the selected         *)
(* function require is a decode failure of that item: the task returns     *)
(* with privado_decoding_successful false and no decoded function or       *)
(* parameters; it does not raise and does not decode what is not there.    *)
(* The decoder is the one modelled from the specification.                 *)

BodyLength(call) == WordBytes * Len(call.words) + call.tail

RequiredLength(inputs) == WordBytes * Len(inputs)

\* The call data of task i selects a function and ends before its parameters do.
Truncated(i) ==
    /\ HashOf(i).hex
    /\ TxFound(ScenarioOf(i))
    /\ ScenarioOf(i).tx.input \notin {None, Some("0x")}
    /\ LET call == CallBytes(ScenarioOf(i).tx.input[1])
       IN  /\ call.head # <<>>
           /\ call.head[1] \in Selectors
           /\ BodyLength(call) < RequiredLength(Registry[call.head[1]].inputs)

C15_TruncationSafety ==
    \A i \in Tasks :
        (Started(i) /\ Truncated(i)) =>
            /\ task[i].pc # "raised"
            /\ ~task[i].result_entry.privado_decoding_successful
            /\ ~task[i].result_entry.is_genesis_transition
            /\ task[i].result_entry.decoded_function = None
            /\ task[i].result_entry.decoded_parameters = None
            /\ PrivadoClassified(i) => DecodedFor(i) = None

\* A privado task that ran the decoder on a transitState call one byte short
\* of its second parameter.
C15_Witness ==
    \E i \in Tasks :
        /\ PrivadoClassified(i)
        /\ Truncated(i)
        /\ ScenarioOf(i).tx.input = Some("0xgenesis_cut")
        /\ Called(i, "decode_transaction_input")
        /\ ~task[i].result_entry.privado_decoding_successful

----------------------------------------------------------------------------
(* C17: no call is reissued.  A task whose hash string converts calls      *)
(* get_transaction once, get_block at most once, get_transaction_receipt   *)
(* at most once and only in civic mode after the earlier steps succeeded;  *)
(* a client call that raises is the last call of its task.  A task whose   *)
(* hash string does not convert raises before its first call and calls     *)
(* nothing.                                                                *)

TimesCalled(i, name) == Cardinality({k \in 1..Len(task[i].calls) : task[i].calls[k] = name})

ClientCalls == {"get_transaction", "get_block", "get_transaction_receipt"}

\* The answer the client gives to a call of task i is an exception.
RaisesOn(i, name) ==
    CASE name = "get_transaction" -> ScenarioOf(i).tx.kind = "raise"
      [] name = "get_block"       -> ScenarioOf(i).block.kind = "raise"
      [] OTHER                    -> ScenarioOf(i).receipt.kind = "raise"

C17_NoRetry ==
    /\ \A i \in Tasks : (Started(i) /\ ~HashOf(i).hex) =>
          task[i].pc = "raised" /\ task[i].calls = <<>>
    /\ \A i \in Tasks : (Started(i) /\ HashOf(i).hex) =>
           /\ \A name \in ClientCalls : TimesCalled(i, name) <= 1
           /\ (Ended(task[i]) \/ task[i].pc # "get_transaction") =>
                 TimesCalled(i, "get_transaction") = 1
           /\ TimesCalled(i, "get_transaction_receipt") = 1 =>
                 /\ config.analysis_mode = "civic"
                 /\ Addressed(ScenarioOf(i))
                 /\ TimesCalled(i, "get_block") = 1
           /\ \A k \in 1..Len(task[i].calls) :
                 (task[i].calls[k] \in ClientCalls /\ RaisesOn(i, task[i].calls[k])) =>
                     /\ k = Len(task[i].calls)
                     /\ Returned(i)
                     /\ task[i].result_entry.error # None

\* The statement for every item, whatever its hash string: once the task
\* has ended, get_transaction was called exactly once.
C17_ExactlyOncePerItem ==
    \A i \in Tasks : Ended(task[i]) => TimesCalled(i, "get_transaction") = 1

\* A task that ended without a client call, its hash string not being
\* hexadecimal.
C17_Witness ==
    \E i \in Tasks :
        /\ Ended(task[i])
        /\ ~HashOf(i).hex
        /\ TimesCalled(i, "get_transaction") = 0

----------------------------------------------------------------------------
(* C18: the content of the report does not depend on the schedule.  For    *)
(* every worker count and every order of completion the entry of a hash is *)
(* the one a run with a single worker computes for it from the hash, the   *)
(* client's answers and the configuration; a finished run holds exactly    *)
(* these entries, in any order; and the progress counter is the number of  *)
(* futures collected so far.                                               *)

\* The entry of hash i in the run with one worker, which takes the hashes
\* one after the other in submission order.
SequentialEntry(i) ==
    CollectedEntry(process_transaction_task(HashOf(i), ScenarioOf(i),
                                            [config EXCEPT !.max_workers = 1]),
                   HashOf(i))

ReportEntries == {raw_results[k] : k \in 1..Len(raw_results)}

C18_ScheduleIndependent ==
    /\ completed_count = Cardinality(yielded)
    /\ completed_count = Len(raw_results)
    /\ ReportEntries = {SequentialEntry(i) : i \in yielded}
    /\ \A i \in yielded : \A k \in EntriesOf(i) : raw_results[k] = SequentialEntry(i)
    /\ PoolFinished => ReportEntries = {SequentialEntry(i) : i \in Tasks}

\* A finished run with two workers whose report lists the second hash
\* before the first, the two entries being different.
C18_Witness ==
    /\ main_pc = "done"
    /\ config.max_workers = 2
    /\ Len(raw_results) = 2
    /\ raw_results[1] = SequentialEntry(2)
    /\ raw_results[2] = SequentialEntry(1)
    /\ [raw_results[1] EXCEPT !.transaction_hash = HashOf(1)] # raw_results[2]

----------------------------------------------------------------------------
(* C19: duplicate hashes in the CSV never give duplicate entries.  The     *)
(* rows that pass the method filter are reduced to the first row of each   *)
(* hash before a task is submitted: the hashes to process are pairwise     *)
(* distinct and are exactly the hashes of those rows, no two tasks have    *)
(* the same hash, and the transaction_hash values of the entries in        *)
(* raw_results are pairwise distinct.                                      *)

\* The hashes of the CSV rows the method filter lets through.
FilteredHashes ==
    {env.csv[1][k].hash : k \in {r \in 1..Len(env.csv[1]) :
        config.methods_to_filter = {} \/ env.csv[1][r].method \in config.methods_to_filter}}

CsvWasRead == env.csv # None /\ main_pc \notin {"check_config", "connect", "read_csv", "returned"}

C19_NoDuplicateEntries ==
    /\ \A i, j \in Tasks : i # j => HashOf(i) # HashOf(j)
    /\ \A k, l \in 1..Len(raw_results) :
          k # l => raw_results[k].transaction_hash # raw_results[l].transaction_hash
    /\ CsvWasRead => {HashOf(i) : i \in Tasks} = FilteredHashes
    /\ \A k \in 1..Len(work_queue) : \A l \in 1..Len(work_queue) :
          k # l => HashOf(work_queue[k]) # HashOf(work_queue[l])

\* A finished run whose CSV held a hash on two rows that both passed the
\* filter: fewer tasks than rows, one entry for that hash.
C19_Witness ==
    /\ main_pc = "done"
    /\ \E k, l \in 1..Len(env.csv[1]) :
          /\ k < l
          /\ env.csv[1][k].hash = env.csv[1][l].hash
          /\ env.csv[1][k].method = "mint"
          /\ env.csv[1][l].method = "mint"
          /\ \E i \in Tasks : HashOf(i) = env.csv[1][k].hash /\ Cardinality(EntriesOf(i)) = 1
    /\ NumTasks < Len(env.csv[1])
    /\ Len(raw_results) = NumTasks

----------------------------------------------------------------------------
(* C20: in every entry a true flag means a complete record without error:  *)
(* privado_decoding_successful implies a decoded function;                 *)
(* is_genesis_transition implies privado_decoding_successful;              *)
(* is_minting_event implies civic_log_processing_successful, a recipient   *)
(* and a token id; and any of the four flags implies a timestamp and no    *)
(* error.                                                                  *)

AnyFlag(e) ==
    \/ e.privado_decoding_successful
    \/ e.is_genesis_transition
    \/ e.is_minting_event
    \/ e.civic_log_processing_successful

FlagsImplyComplete(e) ==
    /\ e.privado_decoding_successful => e.decoded_function # None
    /\ e.is_genesis_transition => e.privado_decoding_successful
    /\ e.is_minting_event =>
          /\ e.civic_log_processing_successful
          /\ e.recipient_address # None
          /\ e.token_id # None
    /\ AnyFlag(e) => e.timestamp # None /\ e.error = None

C20_FlagsImplyComplete ==
    \A k \in 1..Len(raw_results) : FlagsImplyComplete(raw_results[k])

----------------------------------------------------------------------------
(* C21: get_input_data_tx reports call data it cannot decode as None and   *)
(* never raises.  When the transaction is absent, its input is absent,     *)
(* empty or '0x', or it has no target address, it returns None after       *)
(* get_transaction alone: no contract instance is created and no decode    *)
(* is attempted.  When the contract instance cannot be created or the      *)
(* decode against the ABI raises, it returns None as well.                 *)

\* The transaction the client answers to the decoder's hash.
DecoderTx == chain[decoder.tx_hash].tx

InputCalled(name) == \E k \in 1..Len(decoder.calls) : decoder.calls[k] = name

NothingToDecode ==
    \/ DecoderTx.kind \in {"raise", "none"}
    \/ DecoderTx.input \in {None, Some(""), Some("0x")}
    \/ DecoderTx.to \in {None, Some("")}

DecodeRaises == decode_function_input(DecoderTx.input).kind = "raise"

C21_DecoderReturnsNone ==
    /\ decoder.pc # "raised"
    /\ decoder.exception = None
    /\ NothingToDecode =>
          /\ ~InputCalled("contract")
          /\ ~InputCalled("decode_function_input")
          /\ InputEnded(decoder) =>
                decoder.return_value = None /\ decoder.calls = <<"get_transaction">>
    /\ (InputEnded(decoder) /\ ~NothingToDecode /\ decoder.contract_abi # "abi") =>
          /\ decoder.return_value = None
          /\ decoder.calls = <<"get_transaction", "contract">>
    /\ (InputEnded(decoder) /\ ~NothingToDecode /\ DecodeRaises) =>
          decoder.return_value = None
    /\ (InputEnded(decoder) /\ decoder.return_value # None) =>
          decoder.calls = <<"get_transaction", "contract", "decode_function_input">>

\* A call on a transaction with a target and the input '0x' that has
\* returned None after get_transaction.
C21_Witness ==
    /\ decoder.pc = "returned"
    /\ DecoderTx.kind = "tx"
    /\ DecoderTx.input = Some("0x")
    /\ DecoderTx.to = Some("0x70")
    /\ decoder.contract_abi = "abi"
    /\ decoder.return_value = None
    /\ decoder.calls = <<"get_transaction">>

====
